---- MODULE Spec2Model ----
(***************************************************************************)
(* Model of iron.nvim's BaseIron (rplugin/python3/iron/base.py): the       *)
(* registry of REPL sessions keyed by file type.                           *)
(*                                                                         *)
(* Python dicts are functions over the set of keys they hold, so that      *)
(* `k in d`, d[k] on a missing key (KeyError) and d.get(k, default) are    *)
(* what they are in the source.  Dicts have identity: a session stored in  *)
(* the registry is a reference, either to an element of available_repls    *)
(* or to the dict allocated by get_repl_template's `or {}`.                *)
(*                                                                         *)
(* What the host returns when the code reads it (the current buffer, the   *)
(* result of a definition's detect(), whether a command raises) is an      *)
(* input of the operation that reads it, recorded in op.                   *)
(***************************************************************************)
EXTENDS Integers, Sequences, FiniteSets, TLC

\* ------------------------------------------------------------------ inputs
FileTypes == {"python", "text"}
Buffers == {1, 2}
JobIds == {1, 2}
DataStrings == {"print(1)\n", ""}

\* options["ft"] of each buffer of the host
BufferFt(b) == IF b = 1 THEN "python" ELSE "text"

\* The registered definitions (iron.repls.available_repls), in registration
\* order.  The list is what the editor session starts with.
Registered ==
    << [language |-> "python", command |-> <<"ipython">>,
        mappings |-> << <<"k1", "f1", "p1">>, <<"k2", "f2", "p2">> >>],
       [language |-> "python", command |-> <<"python3">>] >>

\* ------------------------------------------------------------- references
None == [kind |-> "None", i |-> 0, ft |-> ""]
NewDict == [kind |-> "new", i |-> 0, ft |-> ""]   \* a `{}` stored nowhere yet
DefRef(i) == [kind |-> "def", i |-> i, ft |-> ""]
FreshRef(ft) == [kind |-> "fresh", i |-> 0, ft |-> ft]

VARIABLES
    available_repls,   \* the list of definition dicts (mutable objects)
    fresh,             \* the `{}` dicts held by the registry, by file type
    repl,              \* self.__repl: file type -> reference to a session dict
    op,                \* the last operation: inputs, result, host calls
    attached,          \* history: for each session of the registry given a job since
                       \* get_repl_for_ft stored it, the job id of the last set_repl_id
    bound,             \* history: for each dict set_mappings ran on, the keys of the
                       \* key-map commands its last run sent to the host, in order
    host_keys          \* the host's key table, where a specification models it: the
                       \* keys mapped by a nnoremap command and not unmapped since

vars == <<available_repls, fresh, repl, op, attached, bound, host_keys>>

\* ------------------------------------------------------------ dict helpers
Has(d, k) == k \in DOMAIN d
DictSet(d, k, v) == [x \in DOMAIN d \cup {k} |-> IF x = k THEN v ELSE d[x]]
DictDel(d, k) == [x \in DOMAIN d \ {k} |-> d[x]]
Empty == [x \in {} |-> 0]
Truthy(d) == DOMAIN d # {}

NDefs == Len(available_repls)

AllRefs == {DefRef(i) : i \in 1..NDefs} \cup {FreshRef(ft) : ft \in DOMAIN fresh}

Deref(r) ==
    IF r.kind = "def" THEN available_repls[r.i]
    ELSE IF r.kind = "fresh" THEN fresh[r.ft]
    ELSE Empty

get_repl(ft) == IF ft \in DOMAIN repl THEN repl[ft] ELSE None

\* get_ft reads options["ft"] of the buffer b the host has current
get_current_repl(b) == get_repl(BufferFt(b))

\* ------------------------------------------------------- get_repl_template
\* dv[i] is what available_repls[i]['detect']() returns during the call
DetectResults == [1..NDefs -> BOOLEAN]
NoDetect == <<>>

\* a filter that forgets to call detect()
Matches_nodetect(ft, dv, i) == ft = available_repls[i].language

Matches(ft, dv, i) == ft = available_repls[i].language /\ dv[i]

FilterRepls(ft, dv) ==
    SelectSeq([i \in 1..NDefs |-> i], LAMBDA i : Matches(ft, dv, i))

\* `repls[-1]` for `repls[0]`
get_repl_template_last(ft, dv) ==
    LET repls == FilterRepls(ft, dv)
    IN  IF Len(repls) # 0 /\ Truthy(available_repls[repls[Len(repls)]])
        THEN DefRef(repls[Len(repls)])
        ELSE NewDict

get_repl_template(ft, dv) ==
    LET repls == FilterRepls(ft, dv)
    IN  IF Len(repls) # 0 /\ Truthy(available_repls[repls[1]])
        THEN DefRef(repls[1])
        ELSE NewDict

\* ---------------------------------------------------------------- op log
NoOp == [name |-> "init", ft |-> "", arg |-> None, job |-> 0, data |-> "",
         buf |-> 0, detect |-> NoDetect, ret |-> None, err |-> "",
         calls |-> <<>>, resolved |-> FALSE, nvim_vars |-> Empty]

Init ==
    /\ available_repls = Registered
    /\ fresh = Empty
    /\ repl = Empty
    /\ op = NoOp
    /\ attached = Empty
    /\ bound = Empty
    /\ host_keys = {}

\* ------------------------------------------------------------- operations
\* d becomes the content of the dict the reference r names
StoreDict(r, d) ==
    /\ available_repls' = IF r.kind = "def"
                          THEN [available_repls EXCEPT ![r.i] = d]
                          ELSE available_repls
    /\ fresh' = IF r.kind = "fresh" THEN [fresh EXCEPT ![r.ft] = d] ELSE fresh

\* get_repl_for_ft without its `if ft not in self.__repl`
get_repl_for_ft_always(ft, dv) ==
    /\ dv \in DetectResults
    /\ LET t == get_repl_template(ft, dv)
           r == IF t = NewDict THEN FreshRef(ft) ELSE t
       IN  /\ fresh' = IF t = NewDict THEN DictSet(fresh, ft, Empty) ELSE fresh
           /\ repl' = DictSet(repl, ft, r)
           /\ attached' = DictDel(attached, r)
           /\ bound' = bound
           /\ op' = [NoOp EXCEPT !.name = "get_repl_for_ft", !.ft = ft,
                                 !.detect = dv, !.ret = r, !.resolved = TRUE]
           /\ UNCHANGED available_repls

\* a get_repl_for_ft that resolves again while the stored session is empty
\* (`if not self.__repl.get(ft)` for `if ft not in self.__repl`)
get_repl_for_ft_retry(ft, dv) ==
    IF ft \in DOMAIN repl /\ Truthy(Deref(repl[ft]))
    THEN /\ dv = NoDetect
         /\ op' = [NoOp EXCEPT !.name = "get_repl_for_ft", !.ft = ft,
                               !.ret = repl[ft]]
         /\ UNCHANGED <<available_repls, fresh, repl, attached, bound>>
    ELSE /\ dv \in DetectResults
         /\ LET t == get_repl_template(ft, dv)
                r == IF t = NewDict THEN FreshRef(ft) ELSE t
            IN  /\ fresh' = IF t = NewDict THEN DictSet(fresh, ft, Empty) ELSE fresh
                /\ repl' = DictSet(repl, ft, r)
                /\ attached' = DictDel(attached, r)
                /\ bound' = bound
                /\ op' = [NoOp EXCEPT !.name = "get_repl_for_ft", !.ft = ft,
                                      !.detect = dv, !.ret = r, !.resolved = TRUE]
                /\ UNCHANGED available_repls

get_repl_for_ft(ft, dv) ==
    IF ft \in DOMAIN repl
    THEN /\ dv = NoDetect
         /\ op' = [NoOp EXCEPT !.name = "get_repl_for_ft", !.ft = ft,
                               !.ret = repl[ft]]
         /\ UNCHANGED <<available_repls, fresh, repl, attached, bound>>
    ELSE /\ dv \in DetectResults
         /\ LET t == get_repl_template(ft, dv)
                r == IF t = NewDict THEN FreshRef(ft) ELSE t
            IN  /\ fresh' = IF t = NewDict THEN DictSet(fresh, ft, Empty) ELSE fresh
                /\ repl' = DictSet(repl, ft, r)
                /\ attached' = DictDel(attached, r)
                /\ bound' = bound
                /\ op' = [NoOp EXCEPT !.name = "get_repl_for_ft", !.ft = ft,
                                      !.detect = dv, !.ret = r, !.resolved = TRUE]
                /\ UNCHANGED available_repls

VarName(ft) == "iron_" \o ft \o "_repl"

set_repl_id(ft, repl_id, b) ==
    IF ft \notin DOMAIN repl
    THEN /\ b = 0
         /\ op' = [NoOp EXCEPT !.name = "set_repl_id", !.ft = ft,
                               !.job = repl_id, !.err = "KeyError"]
         /\ UNCHANGED <<available_repls, fresh, repl, attached, bound>>
    ELSE /\ b \in Buffers
         /\ LET r == repl[ft]
            IN  /\ StoreDict(r, DictSet(Deref(r), "repl_id", repl_id))
                /\ attached' = DictSet(attached, r, repl_id)
                /\ op' = [NoOp EXCEPT !.name = "set_repl_id", !.ft = ft,
                                      !.job = repl_id, !.buf = b,
                                      !.calls = << <<"set_var", VarName(ft), b>> >>]
                /\ UNCHANGED <<repl, bound>>

\* the host commands "umap {m}" for the first n keys of a list
Unmaps(keys, n) == [j \in 1..n |-> <<"umap", keys[j]>>]

\* a clear that ends with self.__repl.clear() for `del self.__repl[ft]`
clear_repl_for_ft_all(ft, failAt) ==
    IF ft \notin DOMAIN repl \/ ~Has(Deref(get_repl(ft)), "mapped_keys")
    THEN /\ failAt = 0
         /\ op' = [NoOp EXCEPT !.name = "clear_repl_for_ft", !.ft = ft,
                               !.err = "KeyError"]
         /\ UNCHANGED <<available_repls, fresh, repl, attached, bound>>
    ELSE LET keys == Deref(repl[ft]).mapped_keys
         IN  /\ failAt <= Len(keys)
             /\ IF failAt = 0
                THEN /\ repl' = Empty
                     /\ fresh' = Empty
                     /\ attached' = Empty
                     /\ op' = [NoOp EXCEPT !.name = "clear_repl_for_ft",
                                   !.ft = ft, !.calls = Unmaps(keys, Len(keys))]
                ELSE /\ UNCHANGED <<repl, fresh, attached>>
                     /\ op' = [NoOp EXCEPT !.name = "clear_repl_for_ft",
                                   !.ft = ft, !.calls = Unmaps(keys, failAt),
                                   !.err = "HostError"]
             /\ bound' = IF failAt = 0
                         THEN [r \in {x \in DOMAIN bound : x.kind = "def"} |-> bound[r]]
                         ELSE bound
             /\ UNCHANGED available_repls

\* a clear that does nothing when there is nothing to clear
clear_repl_for_ft_silent(ft, failAt) ==
    /\ failAt = 0
    /\ op' = [NoOp EXCEPT !.name = "clear_repl_for_ft", !.ft = ft]
    /\ repl' = DictDel(repl, ft)
    /\ fresh' = DictDel(fresh, ft)
    /\ attached' = DictDel(attached, get_repl(ft))
    /\ UNCHANGED <<available_repls, bound>>

\* failAt = 0: the host runs every command; failAt = n > 0: nvim.command
\* raises on the n-th "umap" of the loop.
\* a clear that removes the session in a `finally`, also when the host raises
clear_repl_for_ft_finally(ft, failAt) ==
    IF ft \notin DOMAIN repl \/ ~Has(Deref(get_repl(ft)), "mapped_keys")
    THEN /\ failAt = 0
         /\ op' = [NoOp EXCEPT !.name = "clear_repl_for_ft", !.ft = ft,
                               !.err = "KeyError"]
         /\ UNCHANGED <<available_repls, fresh, repl, attached, bound>>
    ELSE LET keys == Deref(repl[ft]).mapped_keys
         IN  /\ failAt <= Len(keys)
             /\ repl' = DictDel(repl, ft)
             /\ fresh' = DictDel(fresh, ft)
             /\ attached' = DictDel(attached, repl[ft])
             /\ op' = IF failAt = 0
                      THEN [NoOp EXCEPT !.name = "clear_repl_for_ft",
                                   !.ft = ft, !.calls = Unmaps(keys, Len(keys))]
                      ELSE [NoOp EXCEPT !.name = "clear_repl_for_ft",
                                   !.ft = ft, !.calls = Unmaps(keys, failAt),
                                   !.err = "HostError"]
             /\ bound' = IF repl[ft].kind = "fresh"
                         THEN DictDel(bound, repl[ft]) ELSE bound
             /\ UNCHANGED available_repls

clear_repl_for_ft(ft, failAt) ==
    IF ft \notin DOMAIN repl \/ ~Has(Deref(get_repl(ft)), "mapped_keys")
    THEN /\ failAt = 0
         /\ op' = [NoOp EXCEPT !.name = "clear_repl_for_ft", !.ft = ft,
                               !.err = "KeyError"]
         /\ UNCHANGED <<available_repls, fresh, repl, attached, bound>>
    ELSE LET keys == Deref(repl[ft]).mapped_keys
         IN  /\ failAt <= Len(keys)
             /\ IF failAt = 0
                THEN /\ repl' = DictDel(repl, ft)
                     /\ fresh' = DictDel(fresh, ft)
                     /\ attached' = DictDel(attached, repl[ft])
                     /\ op' = [NoOp EXCEPT !.name = "clear_repl_for_ft",
                                   !.ft = ft, !.calls = Unmaps(keys, Len(keys))]
                ELSE /\ UNCHANGED <<repl, fresh, attached>>
                     /\ op' = [NoOp EXCEPT !.name = "clear_repl_for_ft",
                                   !.ft = ft, !.calls = Unmaps(keys, failAt),
                                   !.err = "HostError"]
             /\ bound' = IF failAt = 0 /\ repl[ft].kind = "fresh"
                         THEN DictDel(bound, repl[ft]) ELSE bound
             /\ UNCHANGED available_repls

\* `repl or self.get_current_repl()`: None and an empty dict are both falsy,
\* and the current buffer is read only then
ArgTruthy(arg) == arg # None /\ Truthy(Deref(arg))

\* a send that ignores its session argument
SendTarget_current(arg, b) == get_current_repl(b)

SendTarget(arg, b) == IF ArgTruthy(arg) THEN arg ELSE get_current_repl(b)

send_data(data, arg, b) ==
    LET r == SendTarget(arg, b)
        o == [NoOp EXCEPT !.name = "send_data", !.arg = arg, !.data = data,
                          !.buf = b]
    IN  /\ IF ArgTruthy(arg) THEN b = 0 ELSE b \in Buffers
        /\ op' = IF r = None
                 THEN [o EXCEPT !.err = "TypeError"]
                 ELSE IF ~Has(Deref(r), "repl_id")
                 THEN [o EXCEPT !.err = "KeyError"]
                 ELSE [o EXCEPT !.calls = << <<"jobsend", Deref(r).repl_id, data>> >>]
        /\ UNCHANGED <<available_repls, fresh, repl, attached, bound>>

RECURSIVE MapLoop_prepend(_, _)
\* mapped_keys.insert(0, k) for mapped_keys.append(k)
MapLoop_prepend(d, mappings) ==
    IF mappings = <<>> THEN d
    ELSE LET t == Head(mappings)
         IN  MapLoop_prepend([d EXCEPT !["fns"] = DictSet(@, t[2], t[3]),
                                       !["mapped_keys"] = <<t[1]>> \o @],
                             Tail(mappings))

RECURSIVE MapLoop(_, _)
\* the loop of set_mappings over the (k, n, c) triples: fns[n] = c, append k
MapLoop(d, mappings) ==
    IF mappings = <<>> THEN d
    ELSE LET t == Head(mappings)
         IN  MapLoop([d EXCEPT !["fns"] = DictSet(@, t[2], t[3]),
                               !["mapped_keys"] = Append(@, t[1])],
                     Tail(mappings))

\* the host commands 'nnoremap <silent> {k} :call IronSendSpecial("{n}")<CR>'
MapCmds(mappings) ==
    [j \in 1..Len(mappings) |-> <<"nnoremap", mappings[j][1], mappings[j][2]>>]

\* a set_mappings that keeps the fns / mapped_keys the session already has
\* (setdefault('fns', {}) and setdefault('mapped_keys', []))
set_mappings_keep(arg, ft) ==
    IF ft \notin DOMAIN repl
    THEN /\ op' = [NoOp EXCEPT !.name = "set_mappings", !.ft = ft, !.arg = arg,
                               !.err = "KeyError"]
         /\ UNCHANGED <<available_repls, fresh, repl, attached, bound>>
    ELSE LET r == repl[ft]
             d == Deref(r)
             d0 == DictSet(DictSet(d, "fns", IF Has(d, "fns") THEN d.fns ELSE Empty),
                           "mapped_keys",
                           IF Has(d, "mapped_keys") THEN d.mapped_keys ELSE <<>>)
             a == IF arg = r THEN d0 ELSE Deref(arg)
             mappings == IF Has(a, "mappings") THEN a.mappings ELSE <<>>
         IN  /\ StoreDict(r, MapLoop(d0, mappings))
             /\ op' = [NoOp EXCEPT !.name = "set_mappings", !.ft = ft,
                                   !.arg = arg, !.calls = MapCmds(mappings)]
             /\ bound' = DictSet(bound, r, [j \in 1..Len(mappings) |-> MapCmds(mappings)[j][2]])
             /\ UNCHANGED <<repl, attached>>

\* a set_mappings that starts from self.__repl.setdefault(ft, {})
set_mappings_create(arg, ft) ==
    LET r == IF ft \in DOMAIN repl THEN repl[ft] ELSE FreshRef(ft)
        d0 == DictSet(DictSet(IF ft \in DOMAIN repl THEN Deref(r) ELSE Empty,
                              "fns", Empty), "mapped_keys", <<>>)
        a == IF arg = r THEN d0 ELSE Deref(arg)
        mappings == IF Has(a, "mappings") THEN a.mappings ELSE <<>>
    IN  /\ available_repls' = IF r.kind = "def"
                              THEN [available_repls EXCEPT ![r.i] = MapLoop(d0, mappings)]
                              ELSE available_repls
        /\ fresh' = IF r.kind = "fresh"
                    THEN DictSet(fresh, ft, MapLoop(d0, mappings)) ELSE fresh
        /\ repl' = DictSet(repl, ft, r)
        /\ op' = [NoOp EXCEPT !.name = "set_mappings", !.ft = ft,
                              !.arg = arg, !.calls = MapCmds(mappings)]
        /\ bound' = DictSet(bound, r, [j \in 1..Len(mappings) |-> MapCmds(mappings)[j][2]])
        /\ UNCHANGED attached

set_mappings(arg, ft) ==
    IF ft \notin DOMAIN repl
    THEN /\ op' = [NoOp EXCEPT !.name = "set_mappings", !.ft = ft, !.arg = arg,
                               !.err = "KeyError"]
         /\ UNCHANGED <<available_repls, fresh, repl, attached, bound>>
    ELSE LET r == repl[ft]
             d0 == DictSet(DictSet(Deref(r), "fns", Empty), "mapped_keys", <<>>)
             a == IF arg = r THEN d0 ELSE Deref(arg)
             mappings == IF Has(a, "mappings") THEN a.mappings ELSE <<>>
         IN  /\ StoreDict(r, MapLoop(d0, mappings))
             /\ op' = [NoOp EXCEPT !.name = "set_mappings", !.ft = ft,
                                   !.arg = arg, !.calls = MapCmds(mappings)]
             /\ bound' = DictSet(bound, r, [j \in 1..Len(mappings) |-> MapCmds(mappings)[j][2]])
             /\ UNCHANGED <<repl, attached>>

\* where nvim.command can raise during clear_repl_for_ft(ft)
FailPoints(ft) ==
    0..(IF ft \in DOMAIN repl /\ Has(Deref(repl[ft]), "mapped_keys")
        THEN Len(Deref(repl[ft]).mapped_keys) ELSE 0)

\* ------------------------------------------------------------------- host
\* The host as a recorder: the calls it receives are in op.calls, and its key
\* table is not modelled.
----------------------------------------------------------------------------
\* Hooks.  The hook lists are variables of the host (g:iron_new_repl_hooks and
\* g:iron_new_{ft}_repl_hooks), read at the call: a configuration nvim_vars
\* maps the variables that are set to their value, a value being one function
\* name (list = FALSE, the name in `name`) or a list of function names
\* (list = TRUE, the list in `items`).

\* the most hooks configured for one file type, both lists together
MaxHooks == 2

HookNames == {"h1", "h2"}

GlobalHooksVar == "iron_new_repl_hooks"

FtHooksVar(ft) == "iron_new_" \o ft \o "_repl_hooks"

HookLists == UNION { [1..n -> HookNames] : n \in 0..MaxHooks }

HookValues ==
    [list : {FALSE}, name : HookNames, items : {<<>>}]
        \cup [list : {TRUE}, name : {""}, items : HookLists]

\* self.__nvim.vars.get(var)
get_variable(nvim_vars, var) ==
    IF var \in DOMAIN nvim_vars THEN nvim_vars[var] ELSE None

\* a get_list_variable that drops a value that is not a list
get_list_variable_listonly(nvim_vars, var) ==
    LET v == get_variable(nvim_vars, var)
    IN  IF v = None THEN <<>>
        ELSE IF ~v.list THEN <<>>
        ELSE v.items

get_list_variable(nvim_vars, var) ==
    LET v == get_variable(nvim_vars, var)
    IN  IF v = None THEN <<>>
        ELSE IF ~v.list THEN <<v.name>>
        ELSE v.items

HookConfigs(ft) ==
    { c \in UNION { [S -> HookValues] :
                       S \in SUBSET {GlobalHooksVar, FtHooksVar(ft)} } :
        Len(get_list_variable(c, GlobalHooksVar))
            + Len(get_list_variable(c, FtHooksVar(ft))) <= MaxHooks }

\* the current buffer is b; the host raises in the failAt-th hook call
\* (failAt = 0: every hook returns)
call_hooks(ft, b, nvim_vars, failAt) ==
    LET hooks == get_list_variable(nvim_vars, GlobalHooksVar)
                 \o get_list_variable(nvim_vars, FtHooksVar(ft))
        n == IF failAt = 0 THEN Len(hooks) ELSE failAt
    IN  /\ failAt <= Len(hooks)
        /\ op' = [NoOp EXCEPT !.name = "call_hooks", !.ft = ft, !.buf = b,
                      !.nvim_vars = nvim_vars,
                      !.calls = [j \in 1..n |-> <<"call", hooks[j], b>>],
                      !.err = IF failAt = 0 THEN "" ELSE "HostError"]
        /\ UNCHANGED <<available_repls, fresh, repl, attached, bound>>

HostRecords == UNCHANGED host_keys

RECURSIVE KeysAfter(_, _)
\* The host's key table after the commands of a call list: nnoremap maps its
\* key, umap unmaps it.
KeysAfter(keys, calls) ==
    IF calls = <<>> THEN keys
    ELSE LET c == Head(calls)
         IN  KeysAfter(IF c[1] = "nnoremap" THEN keys \cup {c[2]}
                       ELSE IF c[1] = "umap" THEN keys \ {c[2]}
                       ELSE keys,
                       Tail(calls))

\* The host with its key table: it runs every command the operation sent.
HostKeymap == host_keys' = KeysAfter(host_keys, op'.calls)

Next ==
    \/ \E ft \in FileTypes, dv \in DetectResults \cup {NoDetect} :
           get_repl_for_ft(ft, dv) /\ HostRecords
    \/ \E ft \in FileTypes, id \in JobIds, b \in Buffers \cup {0} :
           set_repl_id(ft, id, b) /\ HostRecords
    \/ \E ft \in FileTypes : \E failAt \in FailPoints(ft) :
           clear_repl_for_ft(ft, failAt) /\ HostRecords
    \/ \E data \in DataStrings, arg \in AllRefs \cup {None}, b \in Buffers \cup {0} :
           send_data(data, arg, b) /\ HostRecords
    \/ \E arg \in AllRefs, ft \in FileTypes : set_mappings(arg, ft) /\ HostRecords

Spec == Init /\ [][Next]_vars

\* ------------------------------------- the registry with the host's key table
\* The operations that send key commands or add and remove sessions, run
\* against a host whose key table is modelled and which accepts every command.
NextKeys ==
    \/ \E ft \in FileTypes, dv \in DetectResults \cup {NoDetect} :
           get_repl_for_ft(ft, dv) /\ HostKeymap
    \/ \E ft \in FileTypes : clear_repl_for_ft(ft, 0) /\ HostKeymap
    \/ \E arg \in AllRefs, ft \in FileTypes : set_mappings(arg, ft) /\ HostKeymap

SpecKeys == Init /\ [][NextKeys]_vars

\* ------------------------------------------- get_repl_template on its own
NextHooks ==
    \E ft \in FileTypes, b \in Buffers :
        \E nvim_vars \in HookConfigs(ft) :
            \E failAt \in 0..MaxHooks :
                call_hooks(ft, b, nvim_vars, failAt) /\ HostRecords

SpecHooks == Init /\ [][NextHooks]_vars

MaxDefs == 3           \* longest list of registered definitions drawn

DefPool ==
    { [language |-> "python", command |-> <<"ipython">>,
       mappings |-> << <<"k1", "f1", "p1">> >>],
      [language |-> "python", command |-> <<"python3">>],
      [language |-> "lua", command |-> <<"lua">>] }

DefLists == UNION {[1..n -> DefPool] : n \in 0..MaxDefs}

ResolveFileTypes == {"python", "lua", "text"}

InitResolve ==
    /\ available_repls \in DefLists
    /\ fresh = Empty
    /\ repl = Empty
    /\ op = NoOp
    /\ attached = Empty
    /\ bound = Empty
    /\ host_keys = {}

Resolve(ft, dv) ==
    /\ op' = [NoOp EXCEPT !.name = "get_repl_template", !.ft = ft,
                          !.detect = dv, !.ret = get_repl_template(ft, dv),
                          !.resolved = TRUE]
    /\ UNCHANGED <<available_repls, fresh, repl, attached, bound>>

NextResolve ==
    \E ft \in ResolveFileTypes, dv \in DetectResults : Resolve(ft, dv) /\ HostRecords

SpecResolve == InitResolve /\ [][NextResolve]_vars

\* ================================================================= claims
\* the session state of a file type: absent, pending (no job) or active
SessionState(ft) ==
    IF ft \notin DOMAIN repl THEN <<"absent", 0>>
    ELSE IF Has(Deref(repl[ft]), "repl_id")
    THEN <<"active", Deref(repl[ft]).repl_id>>
    ELSE <<"pending", 0>>

\* the session a send is aimed at: the explicit argument when one is given,
\* otherwise the session of the current file type
ClaimTarget(o) == IF o.arg # None THEN o.arg ELSE get_current_repl(o.buf)

NoDefinitionMatches(ft, dv) ==
    \A i \in 1..NDefs :
        available_repls[i].language # ft \/ (dv # NoDetect /\ ~dv[i])

\* C1: a get_or_create that follows a successful clear of the same file type
\* and resolves to a definition returns a session with no job identifier and
\* with no fns / mapped_keys of the cleared session.
C1_ClearThenCreateIsBrandNew ==
    [][(/\ op.name = "clear_repl_for_ft" /\ op.err = ""
        /\ op'.name = "get_repl_for_ft" /\ op'.ft = op.ft
        /\ op'.ret.kind = "def")
       => LET d == available_repls'[op'.ret.i]
          IN  /\ ~Has(d, "repl_id")
              /\ Has(d, "fns") => d.fns = Empty
              /\ Has(d, "mapped_keys") => d.mapped_keys = <<>>]_vars

\* C2: a send whose target does not exist, or has had no job attached since it
\* was created, fails and makes no call to the host.
C2_SendWithoutJobFails ==
    op.name = "send_data" =>
        LET t == ClaimTarget(op)
        IN  (t = None \/ t \notin DOMAIN attached)
                => (op.err # "" /\ op.calls = <<>>)

\* C3: a send aimed at a session with a job attached makes exactly one jobsend
\* call, with the job id last attached to that session and the data string as
\* given, and changes nothing in the registry.
C3_SendForwardsData ==
    [][op'.name = "send_data" =>
          LET t == ClaimTarget(op')
          IN  t \in DOMAIN attached =>
                  /\ op'.err = ""
                  /\ op'.calls = << <<"jobsend", attached[t], op'.data>> >>
                  /\ UNCHANGED <<available_repls, fresh, repl>>]_vars

C3_Witness ==
    /\ op.name = "send_data" /\ op.err = "" /\ op.data = "print(1)\n"
    /\ op.arg \in DOMAIN attached
    /\ op.arg # get_repl("text")
    /\ op.calls = << <<"jobsend", 2, "print(1)\n">> >>

\* C4: a get_or_create for a file type that has a session returns that very
\* session without calling resolve and changes nothing; and no operation
\* other than clear replaces or removes the session of a file type.
C4_GetOrCreateIdempotent ==
    [][/\ (op'.name = "get_repl_for_ft" /\ op'.ft \in DOMAIN repl)
              => /\ op'.ret = repl[op'.ft]
                 /\ ~op'.resolved
                 /\ UNCHANGED <<available_repls, fresh, repl, attached>>
       /\ \A ft \in DOMAIN repl :
              op'.name # "clear_repl_for_ft"
                  => (ft \in DOMAIN repl' /\ repl'[ft] = repl[ft])]_vars

C4_Witness ==
    /\ op.name = "get_repl_for_ft" /\ ~op.resolved
    /\ op.ret \in DOMAIN attached
    /\ Has(Deref(op.ret), "mapped_keys")

\* C5 as stated: whenever no definition matches the file type with a true
\* detection predicate, get_or_create returns and stores an empty session
\* (no command, no job identifier).
C5_NoMatchGivesEmptySession ==
    (op.name = "get_repl_for_ft" /\ NoDefinitionMatches(op.ft, op.detect))
        => /\ op.err = ""
           /\ get_repl(op.ft) = op.ret
           /\ Deref(op.ret) = Empty

\* C5 amended: when the file type has no session yet and no definition
\* matches it with a true detection predicate, get_or_create does not raise
\* and returns and stores a new empty session.
C5_NoMatchCreatesEmptySession ==
    (op.name = "get_repl_for_ft" /\ op.resolved
     /\ NoDefinitionMatches(op.ft, op.detect))
        => /\ op.err = ""
           /\ op.ret = FreshRef(op.ft)
           /\ get_repl(op.ft) = op.ret
           /\ Deref(op.ret) = Empty

C5_Witness ==
    /\ op.name = "get_repl_for_ft" /\ op.resolved /\ op.ft = "python"
    /\ NoDefinitionMatches(op.ft, op.detect)
    /\ op.ret = FreshRef("python")

\* C6: resolve returns the definition of lowest index whose file type is the
\* argument and whose detection predicate is true, and the empty result when
\* there is none; the result is fixed by the list and the predicates.
C6_ResolveFirstMatch ==
    op.name = "get_repl_template" =>
        LET M == {i \in 1..NDefs :
                     available_repls[i].language = op.ft /\ op.detect[i]}
        IN  IF M = {} THEN op.ret = NewDict
            ELSE /\ op.ret.kind = "def"
                 /\ op.ret.i \in M
                 /\ \A j \in M : op.ret.i <= j

C6_Witness ==
    /\ op.name = "get_repl_template"
    /\ op.ret.kind = "def" /\ op.ret.i = 2
    /\ available_repls[1].language = op.ft
    /\ NDefs = 3 /\ available_repls[3].language = op.ft /\ op.detect[3]

\* C7: a clear of a session on which set_mappings ran sends the host one
\* unmap command per key that run mapped, in the order of mapping, and the
\* session is gone afterwards (the host accepting every command).
C7_ClearUnmapsInOrder ==
    [][(/\ op'.name = "clear_repl_for_ft" /\ op'.ft \in DOMAIN repl
        /\ repl[op'.ft] \in DOMAIN bound /\ op'.err # "HostError")
       => LET keys == bound[repl[op'.ft]]
          IN  /\ op'.err = ""
              /\ op'.calls = [j \in 1..Len(keys) |-> <<"umap", keys[j]>>]
              /\ op'.ft \notin DOMAIN repl']_vars

C7_Witness ==
    /\ op.name = "clear_repl_for_ft" /\ op.err = ""
    /\ op.calls = << <<"umap", "k1">>, <<"umap", "k2">> >>
    /\ op.ft \notin DOMAIN repl

\* C8: a clear of a file type that has a session, whatever state the session
\* is in, succeeds and removes it (the host accepting every command).
C8_ClearOfAnySessionSucceeds ==
    [][(/\ op'.name = "clear_repl_for_ft" /\ op'.ft \in DOMAIN repl
        /\ op'.err # "HostError")
       => (op'.err = "" /\ op'.ft \notin DOMAIN repl')]_vars

\* C9: a clear of a file type with no session fails with KeyError, sends the
\* host nothing and leaves the registry as it was.
C9_ClearOfAbsentFails ==
    [][(op'.name = "clear_repl_for_ft" /\ op'.ft \notin DOMAIN repl)
       => /\ op'.err = "KeyError"
          /\ op'.calls = <<>>
          /\ UNCHANGED <<available_repls, fresh, repl>>]_vars

C9_Witness ==
    /\ op.name = "clear_repl_for_ft" /\ op.err = "KeyError"
    /\ op.ft \notin DOMAIN repl
    /\ \E i \in 1..NDefs :
           /\ available_repls[i].language = op.ft
           /\ Has(available_repls[i], "mapped_keys")
           /\ available_repls[i].mapped_keys # <<>>

\* C10: every change of a file type's session state is absent -> pending by
\* get_or_create, pending -> active by attach_job, or active -> absent by
\* clear.
C10_OnlyThreeTransitions ==
    [][\A ft \in FileTypes :
          LET a == SessionState(ft)
              b == SessionState(ft)'
          IN  a # b =>
                \/ a[1] = "absent" /\ b[1] = "pending"
                      /\ op'.name = "get_repl_for_ft" /\ op'.ft = ft
                \/ a[1] = "pending" /\ b[1] = "active"
                      /\ op'.name = "set_repl_id" /\ op'.ft = ft
                \/ a[1] = "active" /\ b[1] = "absent"
                      /\ op'.name = "clear_repl_for_ft" /\ op'.ft = ft]_vars

\* the content, after the step, of the dict the reference r names
DerefNext(r) ==
    IF r.kind = "def" THEN available_repls'[r.i]
    ELSE IF r.kind = "fresh" THEN fresh'[r.ft]
    ELSE Empty

\* C11: attach_job and bind_special_functions for a file type with no session
\* fail, create no session, change nothing in the registry and send the host
\* nothing (no variable set, no key mapped).
C11_NoSessionNoAttachNoBind ==
    [][(/\ op'.name \in {"set_repl_id", "set_mappings"}
        /\ op'.ft \notin DOMAIN repl)
       => /\ op'.err = "KeyError"
          /\ op'.calls = <<>>
          /\ UNCHANGED <<available_repls, fresh, repl>>]_vars

C11_Witness ==
    /\ op.name = "set_mappings" /\ op.err = "KeyError"
    /\ op.ft \notin DOMAIN repl
    /\ Has(Deref(op.arg), "mappings")

\* the keys the sessions of the registry list in mapped_keys
SessionKeys ==
    UNION { {Deref(repl[ft]).mapped_keys[j] :
                 j \in 1..Len(Deref(repl[ft]).mapped_keys)} :
            ft \in {f \in DOMAIN repl : Has(Deref(repl[f]), "mapped_keys")} }

\* C16: the keys mapped at the host and not unmapped since are exactly the
\* keys the sessions of the registry list in mapped_keys.
C16_HostKeysAreSessionKeys == host_keys = SessionKeys

\* C12: every registered definition keeps exactly the fields it was registered
\* with, whatever operations have run.
C12_DefinitionsImmutable == available_repls = Registered

\* the payload of the last triple of a mapping list that names function n
LastPayload(mappings, n) ==
    mappings[CHOOSE j \in 1..Len(mappings) :
                 /\ mappings[j][2] = n
                 /\ \A k \in (j + 1)..Len(mappings) : mappings[k][2] # n][3]

\* C13: after bind_special_functions on an existing session, mapped_keys is
\* the keys of the definition's mapping list in list order, fns maps each
\* function name of the list to its payload and nothing else, and the host has
\* received one key-map command per triple, in list order.
C13_BindReplacesMappings ==
    [][(op'.name = "set_mappings" /\ op'.ft \in DOMAIN repl)
       => LET a == Deref(op'.arg)
              maps == IF Has(a, "mappings") THEN a.mappings ELSE <<>>
              d == DerefNext(repl[op'.ft])
          IN  /\ op'.err = ""
              /\ d.mapped_keys = [j \in 1..Len(maps) |-> maps[j][1]]
              /\ DOMAIN d.fns = {maps[j][2] : j \in 1..Len(maps)}
              /\ \A n \in DOMAIN d.fns : d.fns[n] = LastPayload(maps, n)
              /\ op'.calls = [j \in 1..Len(maps) |->
                                 <<"nnoremap", maps[j][1], maps[j][2]>>]]_vars

C13_Witness ==
    /\ op.name = "set_mappings" /\ op.err = "" /\ op.ft = "text"
    /\ op.arg = DefRef(1)
    /\ Deref(repl["text"]).mapped_keys = <<"k1", "k2">>
    /\ Deref(repl["text"]).fns = [f1 |-> "p1", f2 |-> "p2"]
    /\ Len(op.calls) = 2

\* C17: get_or_create, attach_job, bind_special_functions and clear for a file
\* type leave the session of every other file type as it was: in or out of
\* the registry, the same dict, with the same content.
C17_OtherFileTypesUntouched ==
    [][\A ft \in FileTypes :
          (/\ op'.name \in {"get_repl_for_ft", "set_repl_id", "set_mappings",
                            "clear_repl_for_ft"}
           /\ op'.ft # ft)
          => /\ (ft \in DOMAIN repl) = (ft \in DOMAIN repl')
             /\ ft \in DOMAIN repl
                  => /\ repl'[ft] = repl[ft]
                     /\ DerefNext(repl[ft]) = Deref(repl[ft])]_vars

C17_Witness ==
    /\ op.name = "clear_repl_for_ft" /\ op.err = "" /\ op.ft = "text"
    /\ Len(op.calls) = 2
    /\ "python" \in DOMAIN repl
    /\ Has(Deref(repl["python"]), "repl_id")
    /\ Has(Deref(repl["python"]), "mapped_keys")
    /\ Deref(repl["python"]).mapped_keys = <<"k1", "k2">>

\* C18: while the session stored for a file type is the placeholder created by
\* get_or_create, a get_or_create for that file type returns the placeholder,
\* evaluates no detection predicate and leaves the placeholder as it is; and
\* the placeholder stays the stored session through every step that is not a
\* successful clear of that file type.
C18_PlaceholderSticks ==
    [][\A ft \in DOMAIN repl :
          repl[ft].kind = "fresh"
          => /\ (op'.name = "get_repl_for_ft" /\ op'.ft = ft)
                   => /\ op'.ret = FreshRef(ft)
                      /\ op'.detect = NoDetect
                      /\ ~op'.resolved
                      /\ fresh'[ft] = fresh[ft]
             /\ ~(op'.name = "clear_repl_for_ft" /\ op'.ft = ft /\ op'.err = "")
                   => /\ ft \in DOMAIN repl'
                      /\ repl'[ft] = FreshRef(ft)
                      /\ ft \in DOMAIN fresh']_vars

\* a second get_or_create for python, which has registered definitions, gets
\* the still empty placeholder
C18_Witness ==
    /\ op.name = "get_repl_for_ft" /\ op.ft = "python" /\ ~op.resolved
    /\ op.ret = FreshRef("python")
    /\ repl["python"] = FreshRef("python")
    /\ fresh["python"] = Empty

\* C19: a clear of a session that has mapped_keys ends in one of two ways:
\* every key was unmapped, in order, and the session is gone; or the host
\* failed on a request, the error reaches the caller, the requests sent are
\* the unmaps up to the failing one and no later one, and the registry and
\* every session dict (job identifier, fns, mapped_keys) are unchanged.
C19_FailedUnmapKeepsSession ==
    [][(/\ op'.name = "clear_repl_for_ft" /\ op'.ft \in DOMAIN repl
        /\ Has(Deref(repl[op'.ft]), "mapped_keys"))
       => LET keys == Deref(repl[op'.ft]).mapped_keys
          IN  \/ /\ op'.err = ""
                 /\ op'.calls = Unmaps(keys, Len(keys))
                 /\ op'.ft \notin DOMAIN repl'
              \/ /\ op'.err = "HostError"
                 /\ \E n \in 1..Len(keys) : op'.calls = Unmaps(keys, n)
                 /\ UNCHANGED <<available_repls, fresh, repl>>]_vars

C19_Witness ==
    /\ op.name = "clear_repl_for_ft" /\ op.err = "HostError"
    /\ op.calls = << <<"umap", "k1">> >>
    /\ op.ft \in DOMAIN repl
    /\ Has(Deref(repl[op.ft]), "repl_id")
    /\ Deref(repl[op.ft]).mapped_keys = <<"k1", "k2">>
    /\ Deref(repl[op.ft]).fns = [f1 |-> "p1", f2 |-> "p2"]

\* the hook list a configuration gives a variable: empty when the variable is
\* not set, the one name when it is set to a name, the list when set to a list
ConfiguredHooks(nvim_vars, var) ==
    IF var \notin DOMAIN nvim_vars THEN <<>>
    ELSE IF nvim_vars[var].list THEN nvim_vars[var].items
    ELSE <<nvim_vars[var].name>>

\* C14: run_hooks(file_type) calls the hooks of the global list in their
\* order and then the hooks of the file type's list in their order, one call
\* per list entry, each with the current buffer number and nothing else, a
\* single name counting as a one-element list and an unset variable as the
\* empty list (every hook returning); when a hook raises, the calls made are
\* the first ones of that sequence up to the raising one.  No session changes.
C14_HooksInOrder ==
    [][op'.name = "call_hooks"
       => LET g == ConfiguredHooks(op'.nvim_vars, GlobalHooksVar)
              s == ConfiguredHooks(op'.nvim_vars, FtHooksVar(op'.ft))
              all == [j \in 1..(Len(g) + Len(s)) |->
                         <<"call", IF j <= Len(g) THEN g[j] ELSE s[j - Len(g)],
                           op'.buf>>]
          IN  /\ op'.buf \in Buffers
              /\ op'.err = "" => op'.calls = all
              /\ op'.err # ""
                   => /\ op'.err = "HostError"
                      /\ Len(op'.calls) \in 1..Len(all)
                      /\ op'.calls = SubSeq(all, 1, Len(op'.calls))
              /\ UNCHANGED <<available_repls, fresh, repl>>]_vars

\* the global variable holds one name, the file type's a list of one
C14_Witness ==
    /\ op.name = "call_hooks" /\ op.err = "" /\ op.ft = "python" /\ op.buf = 2
    /\ GlobalHooksVar \in DOMAIN op.nvim_vars
    /\ ~op.nvim_vars[GlobalHooksVar].list
    /\ op.nvim_vars[GlobalHooksVar].name = "h2"
    /\ FtHooksVar("python") \in DOMAIN op.nvim_vars
    /\ op.nvim_vars[FtHooksVar("python")].list
    /\ op.nvim_vars[FtHooksVar("python")].items = <<"h1">>
    /\ op.calls = << <<"call", "h2", 2>>, <<"call", "h1", 2>> >>
====
